---- MODULE Spec2Model ----
(***************************************************************************)
(* Model of src/src/etl_pipeline.py: the World Bank extraction pipeline.   *)
(*                                                                         *)
(*   fetch_data          enumerates (country, group) x indicator tasks,    *)
(*                       submits one requests.get per task to a            *)
(*                       ThreadPoolExecutor(max_workers=5), then walks the *)
(*                       futures in submission order and parses each       *)
(*                       response into all_data                            *)
(*   detect_outliers_iqr flags the records outside the 1.5*IQR fences of   *)
(*                       their indicator                                   *)
(*   load_to_database    writes the frame to MySQL                         *)
(*                                                                         *)
(* Values are float64 in the program.  The model uses integer-valued       *)
(* floats; quartiles are kept multiplied by 4 and the fences by 8, which   *)
(* is exact (the float computation on such values is exact as well).       *)
(***************************************************************************)
EXTENDS Integers, Sequences, FiniteSets, TLC

VARIABLES
    COUNTRY_GROUPS,   \* dict group -> list of country codes, in dict order
    INDICATORS,       \* dict indicator code -> name, in dict order
    api,              \* what the upstream API may answer in this run
    pc,               \* position of the main thread
    tasks,            \* fetch_data: list of (country, group)
    futures,          \* fetch_data: list of (future, country_code, group, ind_code, ind_name)
    work_queue,       \* executor: submitted work items not yet taken by a worker
    threads,          \* executor: number of worker threads spawned
    first_done,       \* history: the future whose request ended first (0: none yet)
    collected,        \* fetch_data: number of futures the result loop has handled
    all_data,         \* fetch_data: list of observation dicts
    errors,           \* the "Error fetching ..." lines printed so far
    df_in,            \* the frame handed to detect_outliers_iqr
    df                \* the frame of __main__ (df_raw / df_clean are the same object)

vars == <<COUNTRY_GROUPS, INDICATORS, api, pc, tasks, futures, work_queue,
          threads, first_done, collected, all_data, errors, df_in, df>>

-----------------------------------------------------------------------------
(* Configuration *)

START_YEAR == 2000
END_YEAR == 2024

\* ThreadPoolExecutor(max_workers=5)
max_workers == 5

\* Bounds of the model
MaxCountries == 2     \* countries per group in the enumerated configurations
MaxIndicators == 2    \* indicators in the enumerated configurations
MaxEntries == 2       \* entries of a response body
MaxRows == 4          \* rows of a frame given to detect_outliers_iqr
MaxValue == 3         \* values of those rows are 0..MaxValue

Range(s) == {s[k] : k \in DOMAIN s}

RECURSIVE SeqsUpTo(_, _)
\* all sequences over S of length at most n
SeqsUpTo(S, n) ==
    IF n = 0 THEN {<<>>}
    ELSE LET shorter == SeqsUpTo(S, n - 1)
         IN  shorter \cup {Append(s, x) : s \in {t \in shorter : Len(t) = n - 1}, x \in S}

NoDup(s) == \A a, b \in DOMAIN s : a # b => s[a] # s[b]

GroupNames == <<"G7", "AFRICA_TOP5">>
CountryCodes == {"USA", "NGA", "GBR"}
IndicatorTable ==
    <<[code |-> "NY.GDP.MKTP.KD.ZG", name |-> "GDP Growth (%)"],
      [code |-> "FP.CPI.TOTL.ZG", name |-> "Inflation (%)"],
      [code |-> "SL.UEM.TOTL.ZS", name |-> "Unemployment (%)"]>>

Group(g, cs) == [group |-> g, countries |-> cs]

-----------------------------------------------------------------------------
(* The upstream API: requests.get(url, timeout=10) and resp.json() *)

\* entry["date"] is a string ("2000", or one that is no integer such as
\* "20x1"); entry["value"] is null, a number, or text that is no number
\* (written "null", "1", "n/a")

\* int(entry["date"]): the year, or a ValueError
IntTable == [d \in {"1999", "2000", "2001", "2002", "2003"} |->
                CASE d = "1999" -> 1999
                  [] d = "2000" -> 2000 [] d = "2001" -> 2001
                  [] d = "2002" -> 2002 [] d = "2003" -> 2003]
int_raises(d) == d \notin DOMAIN IntTable
int(d) == IntTable[d]

\* float(entry["value"]): the number, or a ValueError
FloatTable == [v \in {"1", "2", "3"} |->
                CASE v = "1" -> 1 [] v = "2" -> 2 [] v = "3" -> 3]
float_raises(v) == v \notin DOMAIN FloatTable
float(v) == FloatTable[v]

Entry(c, d, v) == [country |-> [id |-> c, value |-> c], date |-> d, value |-> v]

\* outcome of one request: kind is
\*   "exception"  requests.get raised (timeout, connection error)
\*   "malformed"  the body is not JSON: resp.json() raises
\*   "short"      the body is a JSON list of fewer than 2 elements
\*   "data"       the body is [metadata, entries]
\* status is the HTTP status of the response (0 when there is none);
\* requests.get does not raise on a non-2xx status and the code does not
\* look at it
Response(st, k, es) == [status |-> st, kind |-> k, entries |-> es]
Outcome(k, es) == Response(IF k \in {"exception", "none"} THEN 0 ELSE 200, k, es)
NoResult == Outcome("none", <<>>)

\* the entries the rich API may return for country c
RichEntries(c) ==
    {Entry(c, "2000", "1"), Entry(c, "2001", "null"),
     Entry(c, "20x1", "2"), Entry(c, "2002", "n/a")}

\* the body of the end-to-end scenario: 3 valid entries and 1 null-valued one
ScenarioBody(c) ==
    <<Entry(c, "2000", "1"), Entry(c, "2001", "null"),
      Entry(c, "2002", "2"), Entry(c, "2003", "3")>>

\* entry["country"]["id"] as the API writes it: the API answers a request
\* for an ISO3 code with the 2-letter code of the country
ApiId(c) == CASE c = "USA" -> "US" [] c = "NGA" -> "NG" [] c = "GBR" -> "GB"

\* bodies the code does not expect: the country id in the API's own
\* spelling, and a year outside the requested date range
UntrustedBodies(c) ==
    {<<Entry(ApiId(c), "2000", "1")>>, <<Entry(c, "1999", "1")>>}

\* what the API may answer to a request for country c
ApiOutcomes(a, c) ==
    {Outcome("exception", <<>>)} \cup
    IF a = "rich"
    THEN {Outcome("malformed", <<>>), Outcome("short", <<>>), Outcome("data", ScenarioBody(c)),
          Response(500, "malformed", <<>>), Response(404, "short", <<>>),
          Response(500, "data", <<Entry(c, "2000", "1")>>)}
         \cup {Outcome("data", es) : es \in SeqsUpTo(RichEntries(c), MaxEntries)}
         \cup {Outcome("data", es) : es \in UntrustedBodies(c)}
    ELSE {Outcome("data", <<Entry(c, "2000", "1")>>)}

-----------------------------------------------------------------------------
(* fetch_data *)

RECURSIVE FlattenGroups_dedup(_, _)
\* variant: a country already listed by an earlier group is skipped
FlattenGroups_dedup(groups, seen) ==
    IF groups = <<>> THEN <<>>
    ELSE LET fresh == SelectSeq(groups[1].countries, LAMBDA c : c \notin seen)
         IN  [k \in 1..Len(fresh) |-> [country_code |-> fresh[k], group |-> groups[1].group]]
             \o FlattenGroups_dedup(Tail(groups), seen \cup Range(groups[1].countries))

FlattenGroups_once(groups) == FlattenGroups_dedup(groups, {})

RECURSIVE FlattenGroups(_)
\* lines 44-47: for group, countries in COUNTRY_GROUPS.items(): for country in countries
FlattenGroups(groups) ==
    IF groups = <<>> THEN <<>>
    ELSE [k \in 1..Len(groups[1].countries) |->
            [country_code |-> groups[1].countries[k], group |-> groups[1].group]]
         \o FlattenGroups(Tail(groups))

\* lines 55-56: the (task, indicator) pair the nested loops reach after k submissions
NextTask(k) ==
    LET t == tasks[(k \div Len(INDICATORS)) + 1]
        ind == INDICATORS[(k % Len(INDICATORS)) + 1]
    IN  [country_code |-> t.country_code, group |-> t.group,
         ind_code |-> ind.code, ind_name |-> ind.name]

NumEndpoints == Len(tasks) * Len(INDICATORS)

Running == {t \in DOMAIN futures : futures[t].state = "RUNNING"}

\* lines 44-47
EnumerateTasks ==
    /\ pc = "enumerate"
    /\ tasks' = FlattenGroups(COUNTRY_GROUPS)
    /\ pc' = "submit"
    /\ UNCHANGED <<COUNTRY_GROUPS, INDICATORS, api, first_done, futures, work_queue, threads,
                   collected, all_data, errors, df_in, df>>

\* line 61: executor.submit(requests.get, url, timeout=10).  The executor
\* queues the work item and spawns a worker thread unless max_workers
\* threads exist or an idle one is available.
Submit ==
    /\ pc = "submit"
    /\ Len(futures) < NumEndpoints
    /\ futures' = Append(futures, [task |-> NextTask(Len(futures)), state |-> "PENDING",
                                   attempts |-> 0, result |-> NoResult])
    /\ work_queue' = Append(work_queue, Len(futures) + 1)
    /\ \/ /\ threads < max_workers
          /\ threads' = threads + 1
       \/ /\ \/ threads >= max_workers
             \/ threads > Cardinality(Running)
          /\ threads' = threads
    /\ UNCHANGED <<COUNTRY_GROUPS, INDICATORS, api, first_done, pc, tasks, collected, all_data, errors,
                   df_in, df>>

\* lines 55-62: the loops are exhausted
SubmitDone ==
    /\ pc = "submit"
    /\ Len(futures) = NumEndpoints
    /\ pc' = "collect"
    /\ UNCHANGED <<COUNTRY_GROUPS, INDICATORS, api, first_done, tasks, futures, work_queue,
                   threads, collected, all_data, errors, df_in, df>>

\* variant: a thread per work item, whatever the pool size
StartWork_unbounded ==
    /\ work_queue # <<>>
    /\ futures' = [futures EXCEPT ![Head(work_queue)].state = "RUNNING",
                                  ![Head(work_queue)].attempts = @ + 1]
    /\ work_queue' = Tail(work_queue)
    /\ UNCHANGED <<COUNTRY_GROUPS, INDICATORS, api, first_done, pc, tasks, threads, collected,
                   all_data, errors, df_in, df>>

\* a worker thread takes the oldest work item and issues the GET
StartWork ==
    /\ work_queue # <<>>
    /\ Cardinality(Running) < threads
    /\ futures' = [futures EXCEPT ![Head(work_queue)].state = "RUNNING",
                                  ![Head(work_queue)].attempts = @ + 1]
    /\ work_queue' = Tail(work_queue)
    /\ UNCHANGED <<COUNTRY_GROUPS, INDICATORS, api, first_done, pc, tasks, threads, collected,
                   all_data, errors, df_in, df>>

\* the GET of future t returns or raises (at the latest after the 10 s timeout);
\* the worker stores the outcome in the future and is free again
Complete(t) ==
    /\ futures[t].state = "RUNNING"
    /\ \E o \in ApiOutcomes(api, futures[t].task.country_code) :
          futures' = [futures EXCEPT ![t].state = "FINISHED", ![t].result = o]
    /\ first_done' = IF first_done = 0 THEN t ELSE first_done
    /\ UNCHANGED <<COUNTRY_GROUPS, INDICATORS, api, pc, tasks, work_queue, threads,
                   collected, all_data, errors, df_in, df>>

\* variant: ind_code and ind_name are those the submission loop held last
\* (read when the response is handled instead of stored with the future)
Observation_last_indicator(entry, task) ==
    [country |-> entry.country.value,
     country_code |-> entry.country.id,
     country_group |-> task.group,
     indicator_code |-> INDICATORS[Len(INDICATORS)].code,
     indicator_name |-> INDICATORS[Len(INDICATORS)].name,
     year |-> int(entry.date),
     value |-> float(entry.value),
     is_outlier |-> "unset"]

\* lines 75-83: the dict appended for one entry
Observation(entry, task) ==
    [country |-> entry.country.value,
     country_code |-> entry.country.id,
     country_group |-> task.group,
     indicator_code |-> task.ind_code,
     indicator_name |-> task.ind_name,
     year |-> int(entry.date),
     value |-> float(entry.value),
     is_outlier |-> "unset"]

RECURSIVE ParseEntries_break(_, _, _)
\* variant: a null value ends the loop instead of skipping the entry
ParseEntries_break(entries, task, acc) ==
    IF entries = <<>> THEN [data |-> acc, raised |-> "None"]
    ELSE LET entry == Head(entries)
         IN  IF entry.value = "null"
             THEN [data |-> acc, raised |-> "None"]
             ELSE IF int_raises(entry.date) \/ float_raises(entry.value)
                  THEN [data |-> acc, raised |-> "ValueError"]
                  ELSE ParseEntries_break(Tail(entries), task,
                                          Append(acc, Observation(entry, task)))

RECURSIVE ParseEntries_prepend(_, _, _)
\* variant: all_data.insert(0, ...) for all_data.append(...)
ParseEntries_prepend(entries, task, acc) ==
    IF entries = <<>> THEN [data |-> acc, raised |-> "None"]
    ELSE LET entry == Head(entries)
         IN  IF entry.value = "null"
             THEN ParseEntries_prepend(Tail(entries), task, acc)
             ELSE IF int_raises(entry.date) \/ float_raises(entry.value)
                  THEN [data |-> acc, raised |-> "ValueError"]
                  ELSE ParseEntries_prepend(Tail(entries), task,
                                            <<Observation(entry, task)>> \o acc)

RECURSIVE ParseEntries(_, _, _)
\* lines 73-83: the loop over data[1]; acc is all_data.  An int() or float()
\* that raises leaves the loop with what was appended so far.
ParseEntries(entries, task, acc) ==
    IF entries = <<>> THEN [data |-> acc, raised |-> "None"]
    ELSE LET entry == Head(entries)
         IN  IF entry.value = "null"
             THEN ParseEntries(Tail(entries), task, acc)
             ELSE IF int_raises(entry.date) \/ float_raises(entry.value)
                  THEN [data |-> acc, raised |-> "ValueError"]
                  ELSE ParseEntries(Tail(entries), task,
                                    Append(acc, Observation(entry, task)))

\* variant: a body of fewer than 2 elements is treated as an error
HandleResult_short_raises(result, task, acc) ==
    CASE result.kind = "exception" -> [data |-> acc, raised |-> "RequestException"]
      [] result.kind = "malformed" -> [data |-> acc, raised |-> "JSONDecodeError"]
      [] result.kind = "short" -> [data |-> acc, raised |-> "ValueError"]
      [] result.kind = "data" -> ParseEntries(result.entries, task, acc)

\* lines 65-85: the body of the try for one future whose result is known
HandleResult(result, task, acc) ==
    CASE result.kind = "exception" -> [data |-> acc, raised |-> "RequestException"]
      [] result.kind = "malformed" -> [data |-> acc, raised |-> "JSONDecodeError"]
      [] result.kind = "short" -> [data |-> acc, raised |-> "None"]
      [] result.kind = "data" -> ParseEntries(result.entries, task, acc)

\* variant: except requests.RequestException
except_RequestException(e) == e = "RequestException"

\* line 84: except Exception catches every error the try body can raise
except_Exception(e) == e \in {"RequestException", "JSONDecodeError", "ValueError"}

\* variant: a request that raised is submitted again
Collect_retry ==
    /\ pc = "collect"
    /\ collected < Len(futures)
    /\ futures[collected + 1].state = "FINISHED"
    /\ LET f == futures[collected + 1]
           r == HandleResult(f.result, f.task, all_data)
       IN  /\ all_data' = r.data
           /\ errors' = IF r.raised = "None" THEN errors
                        ELSE Append(errors, <<f.task.ind_code, f.task.country_code>>)
           /\ IF f.result.kind = "exception"
              THEN /\ futures' = [futures EXCEPT ![collected + 1].state = "PENDING",
                                                 ![collected + 1].result = NoResult]
                   /\ work_queue' = Append(work_queue, collected + 1)
                   /\ collected' = collected
              ELSE /\ futures' = futures
                   /\ work_queue' = work_queue
                   /\ collected' = collected + 1
    /\ UNCHANGED <<COUNTRY_GROUPS, INDICATORS, api, first_done, pc, tasks, threads, df_in, df>>

\* variant: the loop walks the futures from the last one to the first
Collect_reversed ==
    /\ pc = "collect"
    /\ collected < Len(futures)
    /\ futures[Len(futures) - collected].state = "FINISHED"
    /\ LET f == futures[Len(futures) - collected]
           r == HandleResult(f.result, f.task, all_data)
       IN  /\ all_data' = r.data
           /\ errors' = IF r.raised = "None" THEN errors
                        ELSE Append(errors, <<f.task.ind_code, f.task.country_code>>)
           /\ collected' = collected + 1
    /\ UNCHANGED <<COUNTRY_GROUPS, INDICATORS, api, first_done, pc, tasks, futures,
                   work_queue, threads, df_in, df>>

\* lines 64-85: one iteration of the loop over futures.  future.result()
\* blocks until the future has finished.  An error that the except clause
\* does not catch leaves fetch_data.
Collect ==
    /\ pc = "collect"
    /\ collected < Len(futures)
    /\ futures[collected + 1].state = "FINISHED"
    /\ LET f == futures[collected + 1]
           r == HandleResult(f.result, f.task, all_data)
       IN  /\ all_data' = r.data
           /\ IF r.raised = "None"
              THEN /\ errors' = errors
                   /\ collected' = collected + 1
                   /\ pc' = pc
              ELSE IF except_Exception(r.raised)
                   THEN /\ errors' = Append(errors, <<f.task.ind_code, f.task.country_code>>)
                        /\ collected' = collected + 1
                        /\ pc' = pc
                   ELSE /\ errors' = errors
                        /\ collected' = collected
                        /\ pc' = "fetch_raised"
    /\ UNCHANGED <<COUNTRY_GROUPS, INDICATORS, api, first_done, tasks, futures, work_queue,
                   threads, df_in, df>>

-----------------------------------------------------------------------------
(* pandas *)

ObservationKeys == {"country", "country_code", "country_group", "indicator_code",
                    "indicator_name", "year", "value"}

\* pd.DataFrame(list_of_dicts): the columns are the keys of the dicts; an
\* empty list gives a frame with no rows and no columns
DataFrame(data) ==
    [columns |-> IF data = <<>> THEN {} ELSE ObservationKeys, rows |-> data]

\* variant: the return sits inside the loop over futures
FetchReturn_early ==
    /\ pc = "collect"
    /\ collected >= 1 \/ futures = <<>>
    /\ df' = DataFrame(all_data)
    /\ df_in' = DataFrame(all_data)
    /\ pc' = "extracted"
    /\ UNCHANGED <<COUNTRY_GROUPS, INDICATORS, api, first_done, tasks, futures, work_queue,
                   threads, collected, all_data, errors>>

\* line 87: the with block is left (executor.shutdown(wait=True): every work
\* item has finished) and the frame is built
FetchReturn ==
    /\ pc = "collect"
    /\ collected = Len(futures)
    /\ work_queue = <<>>
    /\ Running = {}
    /\ df' = DataFrame(all_data)
    /\ df_in' = DataFrame(all_data)
    /\ pc' = "extracted"
    /\ UNCHANGED <<COUNTRY_GROUPS, INDICATORS, api, first_done, tasks, futures, work_queue,
                   threads, collected, all_data, errors>>

RECURSIVE Insert(_, _)
\* v put into the ascending sequence s
Insert(s, v) ==
    IF s = <<>> THEN <<v>>
    ELSE IF v <= Head(s) THEN <<v>> \o s
         ELSE <<Head(s)>> \o Insert(Tail(s), v)

RECURSIVE Sort(_)
Sort(s) == IF s = <<>> THEN <<>> ELSE Insert(Sort(Tail(s)), Head(s))

\* Series.quantile(num/4), interpolation linear, times 4:
\* position (n-1)*num/4 between the order statistics
Quantile4(values, num) ==
    LET s == Sort(values)
        n == Len(s)
        pos == (n - 1) * num
        lo == (pos \div 4) + 1
        hi == IF lo < n THEN lo + 1 ELSE n
        frac == pos % 4
    IN  4 * s[lo] + frac * (s[hi] - s[lo])

RECURSIVE Unique(_)
\* Series.unique(): the distinct values in order of first appearance
Unique(s) ==
    IF s = <<>> THEN <<>>
    ELSE LET u == Unique(SubSeq(s, 1, Len(s) - 1))
         IN  IF s[Len(s)] \in Range(u) THEN u ELSE Append(u, s[Len(s)])

\* variant: an indicator without spread (IQR = 0) is skipped
FlagIndicator_guarded(rows, indicator) ==
    LET mask == [k \in DOMAIN rows |-> rows[k].indicator_code = indicator]
        values == [k \in 1..Cardinality({j \in DOMAIN rows : mask[j]}) |->
                      rows[CHOOSE j \in DOMAIN rows :
                              /\ mask[j]
                              /\ Cardinality({m \in 1..j : mask[m]}) = k].value]
        Q1 == Quantile4(values, 1)
        Q3 == Quantile4(values, 3)
        IQR == Q3 - Q1
        lower == 2 * Q1 - 3 * IQR
        upper == 2 * Q3 + 3 * IQR
        outlier_mask == [k \in DOMAIN rows |->
                            (8 * rows[k].value < lower) \/ (8 * rows[k].value > upper)]
    IN  [k \in DOMAIN rows |->
            IF IQR # 0 /\ mask[k] /\ outlier_mask[k]
            THEN [rows[k] EXCEPT !.is_outlier = "True"]
            ELSE rows[k]]

\* variant: the fences themselves count as outside (<= and >= for < and >)
FlagIndicator_nonstrict(rows, indicator) ==
    LET mask == [k \in DOMAIN rows |-> rows[k].indicator_code = indicator]
        values == [k \in 1..Cardinality({j \in DOMAIN rows : mask[j]}) |->
                      rows[CHOOSE j \in DOMAIN rows :
                              /\ mask[j]
                              /\ Cardinality({m \in 1..j : mask[m]}) = k].value]
        Q1 == Quantile4(values, 1)
        Q3 == Quantile4(values, 3)
        IQR == Q3 - Q1
        lower == 2 * Q1 - 3 * IQR
        upper == 2 * Q3 + 3 * IQR
        outlier_mask == [k \in DOMAIN rows |->
                            (8 * rows[k].value <= lower) \/ (8 * rows[k].value >= upper)]
    IN  [k \in DOMAIN rows |->
            IF mask[k] /\ outlier_mask[k]
            THEN [rows[k] EXCEPT !.is_outlier = "True"]
            ELSE rows[k]]

\* variant: the quartiles are taken over the value column of the whole frame
\* (no mask on line 96)
FlagIndicator_global(rows, indicator) ==
    LET mask == [k \in DOMAIN rows |-> rows[k].indicator_code = indicator]
        values == [k \in DOMAIN rows |-> rows[k].value]
        Q1 == Quantile4(values, 1)
        Q3 == Quantile4(values, 3)
        IQR == Q3 - Q1
        lower == 2 * Q1 - 3 * IQR
        upper == 2 * Q3 + 3 * IQR
        outlier_mask == [k \in DOMAIN rows |->
                            (8 * rows[k].value < lower) \/ (8 * rows[k].value > upper)]
    IN  [k \in DOMAIN rows |->
            IF mask[k] /\ outlier_mask[k]
            THEN [rows[k] EXCEPT !.is_outlier = "True"]
            ELSE rows[k]]

\* lines 95-106: one iteration of the loop over the indicators
FlagIndicator(rows, indicator) ==
    LET mask == [k \in DOMAIN rows |-> rows[k].indicator_code = indicator]
        values == [k \in 1..Cardinality({j \in DOMAIN rows : mask[j]}) |->
                      rows[CHOOSE j \in DOMAIN rows :
                              /\ mask[j]
                              /\ Cardinality({m \in 1..j : mask[m]}) = k].value]
        Q1 == Quantile4(values, 1)
        Q3 == Quantile4(values, 3)
        IQR == Q3 - Q1
        lower == 2 * Q1 - 3 * IQR        \* 8 * (Q1 - 1.5 * IQR)
        upper == 2 * Q3 + 3 * IQR        \* 8 * (Q3 + 1.5 * IQR)
        outlier_mask == [k \in DOMAIN rows |->
                            (8 * rows[k].value < lower) \/ (8 * rows[k].value > upper)]
    IN  [k \in DOMAIN rows |->
            IF mask[k] /\ outlier_mask[k]
            THEN [rows[k] EXCEPT !.is_outlier = "True"]
            ELSE rows[k]]

RECURSIVE FlagAll(_, _)
\* lines 94-106: the loop over df["indicator_code"].unique()
FlagAll(rows, indicators) ==
    IF indicators = <<>> THEN rows
    ELSE FlagAll(FlagIndicator(rows, Head(indicators)), Tail(indicators))

\* variant: flags already set are kept (no reset by line 92) and the rows
\* that carry one are left out of the quartiles
detect_outliers_iqr_sticky(frame) ==
    LET keep == {k \in DOMAIN frame.rows : frame.rows[k].is_outlier # "True"}
        sub == SelectSeq([k \in DOMAIN frame.rows |->
                             [frame.rows[k] EXCEPT !.is_outlier =
                                 IF @ = "True" THEN "True" ELSE "False"]],
                         LAMBDA row : row.is_outlier = "False")
        flagged == FlagAll(sub, Unique([k \in DOMAIN sub |-> sub[k].indicator_code]))
        rank(k) == Cardinality({j \in 1..k : j \in keep})
    IN  IF frame.rows = <<>>
        THEN [raised |-> TRUE,
              df |-> [columns |-> frame.columns \cup {"is_outlier"}, rows |-> <<>>]]
        ELSE [raised |-> FALSE,
              df |-> [columns |-> frame.columns \cup {"is_outlier"},
                      rows |-> [k \in DOMAIN frame.rows |->
                                   IF k \in keep
                                   THEN [frame.rows[k] EXCEPT
                                            !.is_outlier = flagged[rank(k)].is_outlier]
                                   ELSE frame.rows[k]]]]

\* variant: the flagged rows are dropped from the frame
detect_outliers_iqr_filter(frame) ==
    LET with_flag == [columns |-> frame.columns \cup {"is_outlier"},
                      rows |-> [k \in DOMAIN frame.rows |->
                                   [frame.rows[k] EXCEPT !.is_outlier = "False"]]]
    IN  IF "indicator_code" \notin with_flag.columns
        THEN [raised |-> TRUE, df |-> with_flag]
        ELSE [raised |-> FALSE,
              df |-> [with_flag EXCEPT !.rows =
                         SelectSeq(FlagAll(with_flag.rows,
                                           Unique([k \in DOMAIN with_flag.rows |->
                                                      with_flag.rows[k].indicator_code])),
                                   LAMBDA row : row.is_outlier = "False")]]

\* lines 89-108.  df["is_outlier"] = False adds or resets the column;
\* df["indicator_code"] raises KeyError when the frame has no such column.
detect_outliers_iqr(frame) ==
    LET with_flag == [columns |-> frame.columns \cup {"is_outlier"},
                      rows |-> [k \in DOMAIN frame.rows |->
                                   [frame.rows[k] EXCEPT !.is_outlier = "False"]]]
    IN  IF "indicator_code" \notin with_flag.columns
        THEN [raised |-> TRUE, df |-> with_flag]
        ELSE [raised |-> FALSE,
              df |-> [with_flag EXCEPT !.rows =
                         FlagAll(with_flag.rows,
                                 Unique([k \in DOMAIN with_flag.rows |->
                                            with_flag.rows[k].indicator_code]))]]

-----------------------------------------------------------------------------
(* __main__ *)

\* line 131: df_clean = detect_outliers_iqr(df_raw); the frame is changed in
\* place, an exception ends the run
DetectOutliers ==
    /\ pc = "extracted"
    /\ LET r == detect_outliers_iqr(df)
       IN  /\ df' = r.df
           /\ pc' = IF r.raised THEN "KeyError" ELSE "transformed"
    /\ UNCHANGED <<COUNTRY_GROUPS, INDICATORS, api, first_done, tasks, futures, work_queue,
                   threads, collected, all_data, errors, df_in>>

\* detect_outliers_iqr applied to its own output (the frame returned by
\* line 108 carries the is_outlier column)
DetectAgain ==
    /\ pc = "transformed"
    /\ df_in' = df
    /\ df' = detect_outliers_iqr(df).df
    /\ pc' = "transformed_again"
    /\ UNCHANGED <<COUNTRY_GROUPS, INDICATORS, api, first_done, tasks, futures,
                   work_queue, threads, collected, all_data, errors>>

\* line 135: load_to_database(df_clean); create_engine / to_sql may raise
Load ==
    /\ pc = "transformed"
    /\ pc' \in {"loaded", "load_error"}
    /\ UNCHANGED <<COUNTRY_GROUPS, INDICATORS, api, first_done, tasks, futures, work_queue,
                   threads, collected, all_data, errors, df_in, df>>

-----------------------------------------------------------------------------
(* Specifications *)

\* the configurations the pipeline is run on: one with more endpoints than
\* workers against an API that answers or fails, and small ones against an
\* API that answers with every kind of body
PoolConfig ==
    [groups |-> <<Group("G7", <<"USA", "GBR">>), Group("AFRICA_TOP5", <<"NGA">>)>>,
     indicators |-> SubSeq(IndicatorTable, 1, 2), api |-> "plain"]
TwoCountries ==
    [groups |-> <<Group("G7", <<"USA">>), Group("AFRICA_TOP5", <<"NGA">>)>>,
     indicators |-> SubSeq(IndicatorTable, 1, 1), api |-> "rich"]
Configs == {PoolConfig, TwoCountries}

InitRun(c) ==
    /\ COUNTRY_GROUPS = c.groups
    /\ INDICATORS = c.indicators
    /\ api = c.api
    /\ pc = "enumerate"
    /\ tasks = <<>>
    /\ futures = <<>>
    /\ work_queue = <<>>
    /\ threads = 0
    /\ first_done = 0
    /\ collected = 0
    /\ all_data = <<>>
    /\ errors = <<>>
    /\ df_in = DataFrame(<<>>)
    /\ df = DataFrame(<<>>)

Init == \E c \in Configs : InitRun(c)

Next ==
    \/ EnumerateTasks
    \/ Submit
    \/ SubmitDone
    \/ StartWork
    \/ \E t \in DOMAIN futures : Complete(t)
    \/ Collect
    \/ FetchReturn
    \/ DetectOutliers
    \/ Load

Spec == Init /\ [][Next]_vars

\* the steps of the fetch phase
FetchStep ==
    \/ EnumerateTasks
    \/ Submit
    \/ SubmitDone
    \/ StartWork
    \/ \E t \in DOMAIN futures : Complete(t)
    \/ Collect
    \/ FetchReturn

\* while the fetch phase can take a step it eventually takes one: the main
\* thread and the workers keep running, and every GET ends (it returns,
\* fails or hits the 10 s timeout)
Fairness == WF_vars(FetchStep)

SpecFair == Spec /\ Fairness

\* the task enumeration as a function of the configuration: every table of
\* two groups of at most MaxCountries countries and at most MaxIndicators
\* indicators
EnumConfigs ==
    {[groups |-> <<Group(GroupNames[1], a), Group(GroupNames[2], b)>>,
      indicators |-> SubSeq(IndicatorTable, 1, n), api |-> "plain"] :
        a \in {x \in SeqsUpTo(CountryCodes, MaxCountries) : NoDup(x)},
        b \in {x \in SeqsUpTo(CountryCodes, MaxCountries) : NoDup(x)},
        n \in 0..MaxIndicators}

InitEnum == \E c \in EnumConfigs : InitRun(c)

NextEnum ==
    \/ EnumerateTasks
    \/ Submit
    \/ SubmitDone

SpecEnum == InitEnum /\ [][NextEnum]_vars

\* detect_outliers_iqr as a function of the frame: every frame of at most
\* MaxRows observations of two indicators with values 0..MaxValue, and the
\* frame of the documented example
Row(ind, v) ==
    [country |-> "USA", country_code |-> "USA", country_group |-> "G7",
     indicator_code |-> ind.code, indicator_name |-> ind.name,
     year |-> START_YEAR, value |-> v, is_outlier |-> "unset"]

ExampleValues == <<10, 12, 12, 13, 12, 11, 14, 13, 15, 102>>
ExampleRows == [k \in DOMAIN ExampleValues |-> Row(IndicatorTable[1], ExampleValues[k])]

\* frames of 5 and 6 rows: an indicator whose quartiles coincide, one
\* whose outlier hides a second one, and two indicators in mixed order
IqrZeroValues == <<1, 0, 1, 3, 1>>
IqrZeroRows == [k \in DOMAIN IqrZeroValues |-> Row(IndicatorTable[1], IqrZeroValues[k])]
MaskingValues == <<0, 0, 0, 1, 4>>
MaskingRows == [k \in DOMAIN MaskingValues |-> Row(IndicatorTable[1], MaskingValues[k])]
MixedRows ==
    <<Row(IndicatorTable[1], 0), Row(IndicatorTable[2], 3), Row(IndicatorTable[1], 0),
      Row(IndicatorTable[1], 3), Row(IndicatorTable[2], 2), Row(IndicatorTable[1], 0)>>

DetectInputs ==
    SeqsUpTo({Row(IndicatorTable[n], v) : n \in 1..2, v \in 0..MaxValue}, MaxRows)
    \cup {ExampleRows, IqrZeroRows, MaskingRows, MixedRows}

InitDetect ==
    /\ COUNTRY_GROUPS = PoolConfig.groups
    /\ INDICATORS = PoolConfig.indicators
    /\ api = "plain"
    /\ pc = "extracted"
    /\ tasks = <<>>
    /\ futures = <<>>
    /\ work_queue = <<>>
    /\ threads = 0
    /\ first_done = 0
    /\ collected = 0
    /\ errors = <<>>
    /\ \E data \in DetectInputs :
          /\ all_data = data
          /\ df_in = DataFrame(data)
          /\ df = DataFrame(data)

NextDetect ==
    \/ DetectOutliers
    \/ DetectAgain
    \/ Load

SpecDetect == InitDetect /\ [][NextDetect]_vars

-----------------------------------------------------------------------------
(* Properties *)

AfterFetch == {"extracted", "transformed", "KeyError", "loaded", "load_error"}

\* the (group, country) places of the configuration
ConfiguredPlaces ==
    UNION {{<<g, k>> : k \in DOMAIN COUNTRY_GROUPS[g].countries} : g \in DOMAIN COUNTRY_GROUPS}

\* C1: once the submission loops are over, the number of submitted requests is
\* the number of configured (group, country) places times the number of
\* indicators, and every (group, country, indicator) combination has exactly
\* one request; a country listed in two groups has one per group.
C1_OneRequestPerCombination ==
    pc = "collect" =>
        /\ Len(futures) = Cardinality(ConfiguredPlaces) * Len(INDICATORS)
        /\ \A p \in ConfiguredPlaces : \A n \in DOMAIN INDICATORS :
              Cardinality({k \in DOMAIN futures :
                  futures[k].task = [country_code |-> COUNTRY_GROUPS[p[1]].countries[p[2]],
                                     group |-> COUNTRY_GROUPS[p[1]].group,
                                     ind_code |-> INDICATORS[n].code,
                                     ind_name |-> INDICATORS[n].name]}) = 1

\* a configuration with a country in both groups has been submitted
C1_Witness ==
    /\ pc = "collect"
    /\ Len(INDICATORS) = 2
    /\ \E c \in CountryCodes :
          /\ c \in Range(COUNTRY_GROUPS[1].countries)
          /\ c \in Range(COUNTRY_GROUPS[2].countries)
    /\ Len(futures) = 8

\* C2: at most 5 requests are in flight (started by a worker, not finished).
C2_AtMostFiveInFlight == Cardinality(Running) <= 5

\* five requests are in flight and a sixth one waits in the queue
C2_Witness ==
    /\ Cardinality(Running) = 5
    /\ work_queue # <<>>

AllSettledOnce ==
    /\ Len(futures) = NumEndpoints
    /\ \A t \in DOMAIN futures :
          /\ futures[t].state = "FINISHED"
          /\ futures[t].attempts = 1
          /\ futures[t].result.kind \in {"exception", "malformed", "short", "data"}

\* C3: no request is issued twice, and eventually the fetch phase is over
\* with every enumerated task started once and settled (answered or failed).
C3_EveryTaskSettledOnce ==
    /\ [](\A t \in DOMAIN futures : futures[t].attempts <= 1)
    /\ <>[](pc \in AfterFetch /\ AllSettledOnce)

\* more endpoints than workers, one of the first requests failed, and the
\* fetch phase is over with every task settled
C3_Witness ==
    /\ pc = "extracted"
    /\ Len(futures) > 5
    /\ futures[1].result.kind = "exception"
    /\ AllSettledOnce

\* an entry that yields an observation
GoodEntry(e) == e.value # "null" /\ ~int_raises(e.date) /\ ~float_raises(e.value)

\* a response whose every entry is null-valued or parsable
FullyParsed(f) ==
    /\ f.result.kind = "data"
    /\ \A k \in DOMAIN f.result.entries :
          f.result.entries[k].value = "null" \/ GoodEntry(f.result.entries[k])

\* row is the observation of entry e of the response to task
Matches(row, e, task) ==
    /\ row.country = e.country.value
    /\ row.country_code = e.country.id
    /\ row.country_group = task.group
    /\ row.indicator_code = task.ind_code
    /\ row.indicator_name = task.ind_name
    /\ row.year = int(e.date)
    /\ row.value = float(e.value)

\* C4: no failure of a task leaves fetch_data; when fetch_data has returned,
\* every future has been handled and every non-null entry of every fully
\* parsed response has its observation in all_data, whichever tasks failed.
C4_FailuresAreContained ==
    /\ pc # "fetch_raised"
    /\ pc \in AfterFetch =>
          /\ collected = Len(futures)
          /\ \A t \in DOMAIN futures : FullyParsed(futures[t]) =>
                \A k \in DOMAIN futures[t].result.entries :
                    GoodEntry(futures[t].result.entries[k]) =>
                        \E r \in DOMAIN all_data :
                            Matches(all_data[r], futures[t].result.entries[k], futures[t].task)

\* the first task failed on a malformed body and the second one was parsed
C4_Witness ==
    /\ pc = "extracted"
    /\ Len(futures) = 2
    /\ futures[1].result.kind = "malformed"
    /\ FullyParsed(futures[2])
    /\ all_data # <<>>

\* the (task, entry) places whose entry parses and gives the observation row
GoodPlaces(row, only_fully_parsed) ==
    {p \in UNION {{<<t, k>> : k \in DOMAIN futures[t].result.entries} : t \in DOMAIN futures} :
        /\ only_fully_parsed => FullyParsed(futures[p[1]])
        /\ GoodEntry(futures[p[1]].result.entries[p[2]])
        /\ Matches(row, futures[p[1]].result.entries[p[2]], futures[p[1]].task)}

RowsLike(row) ==
    {r \in DOMAIN all_data : \A key \in ObservationKeys : all_data[r][key] = row[key]}

ScenarioHolds(failed, ok) ==
    (/\ Len(futures) = 2
     /\ futures[failed].result.kind = "exception"
     /\ futures[ok].result = Outcome("data", ScenarioBody(futures[ok].task.country_code)))
    => /\ Len(all_data) = 3
       /\ \A r \in DOMAIN all_data : all_data[r].country_code = futures[ok].task.country_code

C6_EmptyRunReachesLoad ==
    (pc \in AfterFetch /\ pc # "extracted" /\ df_in.rows = <<>>)
        => pc \in {"transformed", "loaded", "load_error"}

\* C7: every non-null parsable entry of a response has its observation in
\* all_data, also when another entry of the same response does not parse.
C7_PerEntryRecovery ==
    pc \in AfterFetch =>
        \A t \in DOMAIN futures : futures[t].result.kind = "data" =>
            \A k \in DOMAIN futures[t].result.entries :
                GoodEntry(futures[t].result.entries[k]) =>
                    \E r \in DOMAIN all_data :
                        Matches(all_data[r], futures[t].result.entries[k], futures[t].task)

AllFinished ==
    /\ Len(futures) = NumEndpoints
    /\ \A t \in DOMAIN futures : futures[t].state = "FINISHED"

Flagged(frame) ==
    /\ "is_outlier" \in frame.columns
    /\ \A k \in DOMAIN frame.rows : frame.rows[k].is_outlier \in {"True", "False"}

\* C8 as stated: no observation is in all_data while a task is pending or in
\* flight; detection starts only after all tasks are settled and collected;
\* load starts only after detection.
C8_StrictBarrier ==
    /\ all_data # <<>> => AllFinished
    /\ pc \in (AfterFetch \ {"extracted"}) => AllFinished /\ collected = Len(futures)
    /\ pc \in {"loaded", "load_error"} => Flagged(df)

\* C8 amended: the main thread adds the observations of a future only once
\* that future has finished and all requests are submitted, possibly while
\* later tasks are pending or in flight; detection starts only after every
\* task has finished and every future has been handled, on the complete
\* set; load starts only after detection has flagged every row.
C8_Barrier ==
    /\ \A k \in 1..collected : futures[k].state = "FINISHED"
    /\ \A r \in DOMAIN all_data :
          \E t \in 1..collected : \E k \in DOMAIN futures[t].result.entries :
              Matches(all_data[r], futures[t].result.entries[k], futures[t].task)
    /\ all_data # <<>> => pc \notin {"enumerate", "submit"}
    /\ pc \in AfterFetch =>
          /\ AllFinished
          /\ collected = Len(futures)
          /\ df_in.rows = all_data
    /\ pc \in {"loaded", "load_error"} => Flagged(df)

\* observations are already in all_data while a later request is in flight
C8_Witness ==
    /\ pc = "collect"
    /\ all_data # <<>>
    /\ Running # {}

\* the rows of the frame that carry the indicator of row k
SameIndicator(rows, k) == {j \in DOMAIN rows : rows[j].indicator_code = rows[k].indicator_code}

\* the order statistic of rank i (from 0) among the values of the rows in J
OrderStatistic(rows, J, i) ==
    CHOOSE v \in {rows[j].value : j \in J} :
        /\ Cardinality({j \in J : rows[j].value < v}) <= i
        /\ Cardinality({j \in J : rows[j].value <= v}) > i

\* 4 times the linearly interpolated quantile num/4 of the values of the rows in J
Percentile4(rows, J, num) ==
    LET n == Cardinality(J)
        below == ((n - 1) * num) \div 4
        above == IF below + 1 < n THEN below + 1 ELSE below
        part == ((n - 1) * num) % 4
    IN  4 * OrderStatistic(rows, J, below)
        + part * (OrderStatistic(rows, J, above) - OrderStatistic(rows, J, below))

\* row k lies strictly outside the fences Q1 - 1.5 IQR, Q3 + 1.5 IQR of its indicator
OutsideFences(rows, k) ==
    LET J == SameIndicator(rows, k)
        q1 == Percentile4(rows, J, 1)
        q3 == Percentile4(rows, J, 3)
    IN  \/ 8 * rows[k].value < 2 * q1 - 3 * (q3 - q1)
        \/ 8 * rows[k].value > 2 * q3 + 3 * (q3 - q1)

\* C9: after detect_outliers_iqr a row is flagged exactly when its value lies
\* strictly outside the fences Q1 - 1.5 IQR and Q3 + 1.5 IQR of the
\* interpolated quartiles of all values of its indicator; a value on a fence
\* is not flagged; in the example 10, 12, 12, 13, 12, 11, 14, 13, 15, 102 only
\* 102 is flagged.
C9_FlaggedIffOutsideFences ==
    pc = "transformed" =>
        /\ \A k \in DOMAIN df.rows :
              /\ df.rows[k].is_outlier \in {"True", "False"}
              /\ df.rows[k].is_outlier = "True" <=> OutsideFences(df_in.rows, k)
        /\ df_in.rows = ExampleRows =>
              {k \in DOMAIN df.rows : df.rows[k].is_outlier = "True"} = {10}

\* the example frame has been processed and its value 102 is flagged
C9_Witness ==
    /\ pc = "transformed"
    /\ df_in.rows = ExampleRows
    /\ df.rows[10].value = 102
    /\ df.rows[10].is_outlier = "True"

\* C10: detect_outliers_iqr keeps the rows, their order and every field but
\* is_outlier, and leaves every row with is_outlier True or False.
C10_EnrichmentNotFilter ==
    pc \in {"transformed", "KeyError"} =>
        /\ Len(df.rows) = Len(df_in.rows)
        /\ df_in.columns \subseteq df.columns
        /\ "is_outlier" \in df.columns
        /\ \A k \in DOMAIN df.rows :
              /\ \A key \in ObservationKeys : df.rows[k][key] = df_in.rows[k][key]
              /\ df.rows[k].is_outlier \in {"True", "False"}

\* a frame with a flagged row followed by an unflagged one
C10_Witness ==
    /\ pc = "transformed"
    /\ Len(df.rows) >= 4
    /\ df.rows[1].is_outlier = "True"
    /\ df.rows[2].is_outlier = "False"

\* the rows of all_data that carry the identity of task t: its group, its
\* indicator and its country (in the requested or in the API's spelling)
RowsOfTask(t) ==
    {r \in DOMAIN all_data :
        /\ all_data[r].country_group = futures[t].task.group
        /\ all_data[r].indicator_code = futures[t].task.ind_code
        /\ all_data[r].indicator_name = futures[t].task.ind_name
        /\ all_data[r].country_code \in {futures[t].task.country_code,
                                         ApiId(futures[t].task.country_code)}}

\* the request of future f failed: it raised (timeout, no connection), it
\* was answered with a non-2xx status, or its body is not JSON
FailedRequest(f) ==
    \/ f.result.kind \in {"exception", "malformed"}
    \/ f.result.kind \in {"short", "data"} /\ f.result.status \notin 200..299

\* C11: a task whose request timed out, could not connect, was answered with
\* a non-2xx status or with a malformed body has no observation in all_data.
C11_FailedTaskDropped ==
    pc \in AfterFetch =>
        \A t \in DOMAIN futures : FailedRequest(futures[t]) => RowsOfTask(t) = {}

\* the number of entries of the response of future t that yield an observation
GoodCount(t) ==
    Cardinality({k \in DOMAIN futures[t].result.entries :
                    GoodEntry(futures[t].result.entries[k])})

\* C12: a task whose body has fewer than 2 top-level elements has no
\* observation in all_data and no error line, and the futures after it are
\* still handled: every future is collected and the fully parsed responses
\* after it have all their observations.
C12_ShortBodyIsEmpty ==
    pc \in AfterFetch =>
        \A t \in DOMAIN futures : futures[t].result.kind = "short" =>
            /\ RowsOfTask(t) = {}
            /\ <<futures[t].task.ind_code, futures[t].task.country_code>> \notin Range(errors)
            /\ collected = Len(futures)
            /\ \A u \in DOMAIN futures :
                  (u > t /\ FullyParsed(futures[u])) =>
                      Cardinality(RowsOfTask(u)) = GoodCount(u)

\* the first body was short, the second one gave observations, nothing was logged
C12_Witness ==
    /\ pc = "extracted"
    /\ Len(futures) = 2
    /\ futures[1].result.kind = "short"
    /\ FullyParsed(futures[2])
    /\ RowsOfTask(2) # {}
    /\ errors = <<>>

\* C13 as stated: the observations of the task whose request ended first
\* precede the observations of every other task.
C13_CompletionOrder ==
    \A t, u \in DOMAIN futures :
        (first_done = t /\ u # t) =>
            \A r \in RowsOfTask(t) : \A q \in RowsOfTask(u) : r < q

\* C13 amended: the observations are in submission order of their tasks,
\* whichever request ended first.
C13_SubmissionOrder ==
    \A t, u \in DOMAIN futures :
        t < u => \A r \in RowsOfTask(t) : \A q \in RowsOfTask(u) : r < q

\* the second request ended first and both tasks have observations
C13_Witness ==
    /\ pc = "extracted"
    /\ first_done = 2
    /\ RowsOfTask(1) # {}
    /\ RowsOfTask(2) # {}

\* the position among the observation-yielding entries of entry j of future t
GoodRank(t, j) ==
    Cardinality({k \in 1..j : GoodEntry(futures[t].result.entries[k])})

\* C14: the rows of one task are contiguous in all_data; the rows of a fully
\* parsed response are the observations of its non-null entries in entry
\* order; and once fetch_data has returned none of them is missing.
C14_BatchesAreUnits ==
    /\ \A t \in DOMAIN futures : \A r, q \in RowsOfTask(t) :
          \A m \in r..q : m \in RowsOfTask(t)
    /\ \A t \in 1..collected : FullyParsed(futures[t]) =>
          /\ Cardinality(RowsOfTask(t)) = GoodCount(t)
          /\ \A j \in DOMAIN futures[t].result.entries :
                GoodEntry(futures[t].result.entries[j]) =>
                    \E first \in RowsOfTask(t) :
                        /\ \A r \in RowsOfTask(t) : first <= r
                        /\ Matches(all_data[first + GoodRank(t, j) - 1],
                                   futures[t].result.entries[j], futures[t].task)
    /\ pc \in AfterFetch => collected = Len(futures)

\* the first task answered the 4-entry body, the second has observations too
C14_Witness ==
    /\ pc = "extracted"
    /\ Len(futures) = 2
    /\ futures[1].result = Outcome("data", ScenarioBody("USA"))
    /\ Cardinality(RowsOfTask(1)) = 3
    /\ RowsOfTask(2) # {}

\* C15: when the quartiles of an indicator coincide, a row of it is flagged
\* exactly when its value differs from that quartile; the only row of an
\* indicator, and rows that all share one value, are not flagged.
C15_ZeroSpread ==
    pc = "transformed" =>
        \A k \in DOMAIN df.rows :
            LET J == SameIndicator(df_in.rows, k)
                q1 == Percentile4(df_in.rows, J, 1)
                q3 == Percentile4(df_in.rows, J, 3)
            IN  /\ q1 = q3 =>
                      (df.rows[k].is_outlier = "True" <=> 4 * df_in.rows[k].value # q1)
                /\ (\A j \in J : df_in.rows[j].value = df_in.rows[k].value) =>
                      df.rows[k].is_outlier = "False"

\* Q1 = Q3 = 1 for the values 1, 0, 1, 3, 1: 0 and 3 are flagged, the 1s are not
C15_Witness ==
    /\ pc = "transformed"
    /\ df_in.rows = IqrZeroRows
    /\ df.rows[1].is_outlier = "False"
    /\ df.rows[2].is_outlier = "True"
    /\ df.rows[4].is_outlier = "True"

\* C16: detect_outliers_iqr applied to its own output (df_in, which carries
\* the flags of the first application) gives every row the flag it had.
C16_Idempotent ==
    pc = "transformed_again" =>
        /\ Len(df.rows) = Len(df_in.rows)
        /\ \A k \in DOMAIN df.rows :
              /\ df_in.rows[k].is_outlier \in {"True", "False"}
              /\ df.rows[k].is_outlier = df_in.rows[k].is_outlier

\* the values 0, 0, 0, 1, 4 after the second application: 4 was and stays
\* flagged, 1 was not and is not (though it lies outside the fences of the
\* other four values)
C16_Witness ==
    /\ pc = "transformed_again"
    /\ Len(df.rows) = 5
    /\ \A k \in 1..5 : df.rows[k].value = MaskingValues[k]
    /\ df_in.rows[5].is_outlier = "True"
    /\ df.rows[5].is_outlier = "True"
    /\ df.rows[4].is_outlier = "False"

\* the frame with the records of the indicator of row k only, in their order
OnlyIndicator(frame, k) ==
    [frame EXCEPT !.rows = SelectSeq(frame.rows,
        LAMBDA row : row.indicator_code = frame.rows[k].indicator_code)]

\* the position of row k among the rows of its indicator
RankInIndicator(rows, k) == Cardinality({j \in SameIndicator(rows, k) : j <= k})

\* C17: the flag detect_outliers_iqr gives a record is the flag it gives that
\* record in the frame that holds the records of its indicator alone; so two
\* frames with the same records of indicator A, whatever their records of
\* other indicators are and wherever they stand, flag A's records alike.
C17_PartitionIndependence ==
    pc = "transformed" =>
        \A k \in DOMAIN df.rows :
            LET alone == detect_outliers_iqr(OnlyIndicator(df_in, k)).df.rows
            IN  /\ Len(alone) = Cardinality(SameIndicator(df_in.rows, k))
                /\ df.rows[k].is_outlier
                       = alone[RankInIndicator(df_in.rows, k)].is_outlier

\* the frame with 0, 0, 3, 0 under one indicator and 3, 2 under another,
\* interleaved: 3 is flagged under the first and not under the second
C17_Witness ==
    /\ pc = "transformed"
    /\ df_in.rows = MixedRows
    /\ \E k, j \in DOMAIN df.rows :
          /\ df.rows[k].indicator_code # df.rows[j].indicator_code
          /\ df.rows[k].value = df.rows[j].value
          /\ df.rows[k].is_outlier = "True"
          /\ df.rows[j].is_outlier = "False"

\* C18: every observation collected so far has an indicator_code of the
\* indicator table, a country_code listed in some country group, and a year
\* from START_YEAR to END_YEAR, whatever the responses were.
C18_DataModelInvariant ==
    \A r \in DOMAIN all_data :
        /\ all_data[r].indicator_code \in {INDICATORS[i].code : i \in DOMAIN INDICATORS}
        /\ \E p \in ConfiguredPlaces :
              all_data[r].country_code = COUNTRY_GROUPS[p[1]].countries[p[2]]
        /\ all_data[r].year \in START_YEAR..END_YEAR

\* row carries the group, indicator code and indicator name of task
CarriesIdentity(row, task) ==
    /\ row.country_group = task.group
    /\ row.indicator_code = task.ind_code
    /\ row.indicator_name = task.ind_name

\* C19: the observations a step adds to all_data are added while the
\* response of one future is handled, and each carries the country_group,
\* indicator_code and indicator_name of that future's task; the observations
\* already there keep theirs. This holds in every order of completion.
C19_IdentityOfOwnTask ==
    [][/\ Len(all_data') >= Len(all_data)
       /\ SubSeq(all_data', 1, Len(all_data)) = all_data
       /\ Len(all_data') > Len(all_data) =>
             /\ pc = "collect"
             /\ collected < Len(futures)
             /\ \A r \in (Len(all_data) + 1)..Len(all_data') :
                   /\ CarriesIdentity(all_data'[r], futures[collected + 1].task)
                   /\ \E j \in DOMAIN futures[collected + 1].result.entries :
                         all_data'[r].country
                             = futures[collected + 1].result.entries[j].country.value]_vars

\* six tasks over two indicators, the fifth submitted completed first, and
\* the observation of each task stands at the task's place with its identity
C19_Witness ==
    /\ pc = "extracted"
    /\ Len(futures) = 6
    /\ first_done = 5
    /\ Len(all_data) = 6
    /\ \A t \in 1..6 : CarriesIdentity(all_data[t], futures[t].task)
    /\ \E t, u \in 1..6 : all_data[t].indicator_code # all_data[u].indicator_code

====
